---- MODULE Spec2Model ----
(***************************************************************************)
(* Model of the cbb-preds feature pipeline: the team-game log written by   *)
(* assemble_history, the two per-team rolling calculators (training and    *)
(* inference), the training builder, the game-pair assembler, the feature  *)
(* vector builder and the odds converter.                                  *)
(*                                                                         *)
(* Numbers.  A pandas float cell is modelled as a tuple: <<>> is NaN and   *)
(* <<v>> a defined value.  Rolling means are rationals with denominator    *)
(* 1..5, stored exactly as integers in units of 1/Scale (Scale = 60);      *)
(* standard deviations are stored in the same unit, rounded down.          *)
(***************************************************************************)
EXTENDS Integers, Sequences, FiniteSets, TLC

VARIABLES
    daily_dir,  \* data/interstat/daily/*.parquet: the rows of all daily files, in file order
    games,      \* data/interstat/history/games_all.parquet: sequence of team-game rows
    pc,         \* which run has happened on the log: "ingest", "trained", "predicted", ...
    train_roll, \* build_training_from_games.main: df after the per-team rolling (line 101)
    training,   \* build_training_from_games.main: g_train, the training set written
    target,     \* predict_for_date.main: date_target
    roll,       \* predict_for_date.main: roll, the per-team rolling over hist
    asof,       \* predict_for_date.main: asof, one snapshot row per team
    pairs,      \* predict_for_date.main: pairs, one row per game of the target date
    X,          \* predict_for_date.main: the model matrix
    board,      \* predict_for_date.main: out, the board written
    prob,       \* odds converter input: the numerator of p = prob / ProbDen, or <<>>
    moneyline,  \* odds converter output: <<home_moneyline_nv, away_moneyline_nv>>
    files,      \* the daily directory as a sorted list of files: [rows, readable]
    columns,    \* the columns of the stored frames (daily files and log)
    games_teams,\* build_history.main: games_teams.parquet (<<>> while not written)
    historical, \* ingest_range.build_historical: historical.parquet (<<>> while not written)
    predictions,\* the predictions table: a set of rows, keyed by (date, game_id)
    boards,     \* data/interstat/history/board_<date>.csv, by date
    job,        \* daily_predict.main: [step, today, clean]
    season      \* season_start_for: [d, start], dates as <<year, month, day>>

\* the variables of the history builders and of the serving side
HistoryVars == <<files, columns, games_teams, historical>>
ServingVars == <<predictions, boards, job, season>>

vars == <<daily_dir, games, pc, train_roll, training, target, roll, asof, pairs, X, board,
          prob, moneyline, files, columns, games_teams, historical, predictions,
          boards, job, season>>

----------------------------------------------------------------------------
(* Bounds of the model *)

MaxGames == 4        \* games ingested in Spec
MaxDeepGames == 7    \* games ingested in SpecDeep (one team plays every game)
MaxLeakGames == 5    \* games ingested in SpecLeak
MaxBoardGames == 4   \* games ingested in SpecBoard
MaxFiles == 3        \* daily files saved in SpecHistory
ProbDen == 100       \* probabilities are the multiples of 1/ProbDen

(* Program constants *)

Window == 5          \* rolling window
MinPeriods == 1      \* min_periods of every rolling aggregate
DefaultRest == 7     \* rest_days of a team's first game
RestCap == 14        \* upper clamp of rest_days in the training calculator
MinPrior == 3        \* training eligibility: prior games needed on each side
Scale == 3 * 4 * 5   \* unit of the rolling means: 1/60 (lcm of the window sizes 1..5)

----------------------------------------------------------------------------
(* Float cells *)

NaN == <<>>
Num(v) == <<v>>
IsNum(o) == o # <<>>
Val(o) == o[1]

\* the sequence s with every element evaluated (a pandas Series is materialised)
Materialise(s) == SubSeq(s, 1, Len(s))

Max(a, b) == IF a >= b THEN a ELSE b
Min(a, b) == IF a <= b THEN a ELSE b

\* a - b on two float cells: NaN if either is NaN
Sub(a, b) == IF IsNum(a) /\ IsNum(b) THEN Num(Val(a) - Val(b)) ELSE NaN
Add(a, b) == IF IsNum(a) /\ IsNum(b) THEN Num(Val(a) + Val(b)) ELSE NaN

RECURSIVE ISqrtB(_, _, _)
ISqrtB(x, lo, hi) ==
    IF hi - lo <= 1 THEN lo
    ELSE LET mid == (lo + hi) \div 2
         IN  IF mid * mid <= x THEN ISqrtB(x, mid, hi) ELSE ISqrtB(x, lo, mid)

\* a power of two whose square exceeds x
RECURSIVE SqrtBound(_, _)
SqrtBound(x, h) == IF h * h > x THEN h ELSE SqrtBound(x, 2 * h)

\* floor of the square root of x >= 0
ISqrt(x) == ISqrtB(x, 0, SqrtBound(x, 1))

----------------------------------------------------------------------------
(* fetch_interstat.fetch_day: two rows per game, visitor row first *)

\* g: [id, gameday, starttime, v_id, h_id, v_code, h_code, v_pts, h_pts];
\* ids, codes, start time and scores are cells (missing in the payload = NaN)
FetchDayRows(g) ==
    << [date |-> g.gameday, game_id |-> g.id, start_time |-> g.starttime,
        is_home |-> FALSE,
        team_id |-> g.v_id, team_code |-> g.v_code,
        opp_id |-> g.h_id, opp_code |-> g.h_code,
        pts |-> g.v_pts, opp_pts |-> g.h_pts,
        margin |-> IF IsNum(g.v_pts) /\ IsNum(g.h_pts)
                   THEN Num(Val(g.v_pts) - Val(g.h_pts)) ELSE NaN],
       [date |-> g.gameday, game_id |-> g.id, start_time |-> g.starttime,
        is_home |-> TRUE,
        team_id |-> g.h_id, team_code |-> g.h_code,
        opp_id |-> g.v_id, opp_code |-> g.v_code,
        pts |-> g.h_pts, opp_pts |-> g.v_pts,
        margin |-> IF IsNum(g.v_pts) /\ IsNum(g.h_pts)
                   THEN Num(Val(g.h_pts) - Val(g.v_pts)) ELSE NaN] >>

----------------------------------------------------------------------------
(* Stable sorting: pandas sort_values(kind="mergesort") and lexsort *)

\* lexicographic <= on two integer tuples of the same length
RECURSIVE LexLeq(_, _)
LexLeq(a, b) ==
    IF Len(a) = 0 THEN TRUE
    ELSE IF Head(a) < Head(b) THEN TRUE
    ELSE IF Head(a) > Head(b) THEN FALSE
    ELSE LexLeq(Tail(a), Tail(b))

\* insert the <<key, element>> pair p after every pair whose key is <= its key
RECURSIVE InsertStable(_, _)
InsertStable(sorted, p) ==
    IF Len(sorted) = 0 THEN <<p>>
    ELSE LET n == Len(sorted)
         IN  IF LexLeq(sorted[n][1], p[1]) THEN Append(sorted, p)
             ELSE Append(InsertStable(SubSeq(sorted, 1, n - 1), p), sorted[n])

RECURSIVE SortPairs(_)
SortPairs(ps) ==
    IF Len(ps) = 0 THEN <<>>
    ELSE InsertStable(SortPairs(SubSeq(ps, 1, Len(ps) - 1)), ps[Len(ps)])

\* the stable sort of seq by the parallel sequence of integer-tuple keys
Zip(keys, seq) == Materialise([i \in 1..Len(seq) |-> <<keys[i], seq[i]>>])
Seconds(ps) == Materialise([i \in 1..Len(ps) |-> ps[i][2]])
StableSort(seq, keys) == Seconds(SortPairs(Zip(keys, seq)))

Bool2Int(b) == IF b THEN 1 ELSE 0

----------------------------------------------------------------------------
(* assemble_history.main: concat, drop duplicates, sort *)

\* astype(str) of an id cell: the digits of the id; a missing id becomes the
\* (defined) string "<NA>", written 0 here, which no team id equals
AsStr(c) == IF IsNum(c) THEN Val(c) ELSE 0

DedupKey(r) == <<r.date, r.game_id, r.team_id, r.is_home>>

\* drop_duplicates(subset=[date, game_id, team_id, is_home]), keep="first"
RECURSIVE DropDuplicates(_)
DropDuplicates(rows) ==
    IF Len(rows) = 0 THEN <<>>
    ELSE LET n == Len(rows)
         IN  IF \E j \in 1..(n - 1) : DedupKey(rows[j]) = DedupKey(rows[n])
             THEN DropDuplicates(SubSeq(rows, 1, n - 1))
             ELSE Append(DropDuplicates(SubSeq(rows, 1, n - 1)), rows[n])

\* lines 25-28: team_id and opp_id to str
NormaliseTypes(rows) ==
    Materialise([i \in 1..Len(rows) |->
                    [rows[i] EXCEPT !.team_id = AsStr(@), !.opp_id = AsStr(@)]])

\* sort_values(["date", "game_id", "is_home"])
SortHistory(d) ==
    StableSort(d, [i \in 1..Len(d) |-> <<d[i].date, d[i].game_id, Bool2Int(d[i].is_home)>>])

\* lines 22-31 over the concatenated daily rows
AssembleHistory(rows) == SortHistory(DropDuplicates(NormaliseTypes(rows)))

----------------------------------------------------------------------------
(* The history builders over a directory of daily files *)

\* the columns fetch_day writes (those the model carries)
AllColumns ==
    {"date", "game_id", "start_time", "is_home", "team_id", "team_code", "opp_id",
     "opp_code", "pts", "opp_pts", "margin"}

\* pd.concat of the frames of the files fs, in file order
RECURSIVE ConcatFiles(_)
ConcatFiles(fs) ==
    IF Len(fs) = 0 THEN <<>> ELSE fs[1].rows \o ConcatFiles(Tail(fs))

\* the files a try / except around the read keeps
ReadableFiles(fs) == SelectSeq(fs, LAMBDA f : f.readable)

\* sort position of a nullable integer cell: missing values last
NaLast(c) == IF IsNum(c) THEN <<0, Val(c)>> ELSE <<1, 0>>

\* build_history.main, lines 72-73: sort_values(["date","game_id","is_home","team_id"])
SortTeamGames(h) ==
    StableSort(h, [i \in 1..Len(h) |->
        <<h[i].date, h[i].game_id, Bool2Int(h[i].is_home)>> \o NaLast(h[i].team_id)])

\* build_history.main, lines 60-73, over the files that exist
build_history(fs) == SortTeamGames(DropDuplicates(ConcatFiles(ReadableFiles(fs))))

\* ingest_range.build_historical, line 61: the key of drop_duplicates
HistoricalKey(r) == <<r.date, r.game_id, r.team_id>>

\* drop_duplicates(subset=["date", "game_id", "team_id"]), keep="first"
RECURSIVE DropDuplicatesHistorical(_)
DropDuplicatesHistorical(rows) ==
    IF Len(rows) = 0 THEN <<>>
    ELSE IF \E j \in 1..(Len(rows) - 1) :
                HistoricalKey(rows[j]) = HistoricalKey(rows[Len(rows)])
         THEN DropDuplicatesHistorical(SubSeq(rows, 1, Len(rows) - 1))
         ELSE Append(DropDuplicatesHistorical(SubSeq(rows, 1, Len(rows) - 1)),
                     rows[Len(rows)])

\* line 61: sort_values(["date","game_id","team_id"])
SortHistorical(h) ==
    StableSort(h, [i \in 1..Len(h) |->
        <<h[i].date, h[i].game_id>> \o NaLast(h[i].team_id)])

\* ingest_range.build_historical, lines 40-61, over the files that exist
build_historical(fs) ==
    SortHistorical(DropDuplicatesHistorical(ConcatFiles(ReadableFiles(fs))))

----------------------------------------------------------------------------
(* pandas Series helpers over sequences of float cells *)

\* a calculator without the shift: each row aggregates its own game as well
NoShift(s) == s

\* Series.shift(1)
Shift(s) == Materialise([i \in 1..Len(s) |-> IF i = 1 THEN NaN ELSE s[i - 1]])

RECURSIVE SumRange(_, _, _)
SumRange(s, lo, hi) ==
    IF lo > hi THEN 0
    ELSE (IF IsNum(s[lo]) THEN Val(s[lo]) ELSE 0) + SumRange(s, lo + 1, hi)

RECURSIVE SumSqRange(_, _, _)
SumSqRange(s, lo, hi) ==
    IF lo > hi THEN 0
    ELSE (IF IsNum(s[lo]) THEN Val(s[lo]) * Val(s[lo]) ELSE 0) + SumSqRange(s, lo + 1, hi)

RECURSIVE CountRange(_, _, _)
CountRange(s, lo, hi) ==
    IF lo > hi THEN 0
    ELSE (IF IsNum(s[lo]) THEN 1 ELSE 0) + CountRange(s, lo + 1, hi)

\* Series.rolling(w, min_periods=MinPeriods).mean(), in units of 1/Scale
MeanOf(n, sm) == IF n >= MinPeriods /\ n > 0 THEN Num((sm * Scale) \div n) ELSE NaN

\* a window one game too wide
RollingMeanWide(s, w) ==
    Materialise([i \in 1..Len(s) |->
        MeanOf(CountRange(s, Max(1, i - w), i), SumRange(s, Max(1, i - w), i))])

RollingMean(s, w) ==
    Materialise([i \in 1..Len(s) |->
        MeanOf(CountRange(s, Max(1, i - w + 1), i), SumRange(s, Max(1, i - w + 1), i))])

\* the sample standard deviation (ddof = 1) of n values with sum sm and sum of
\* squares sq, in units of 1/Scale; NaN below two values
StdOf(n, sm, sq) ==
    IF n >= MinPeriods /\ n > 1
    THEN Num(ISqrt(((n * sq - sm * sm) * Scale * Scale) \div (n * (n - 1))))
    ELSE NaN

\* Series.rolling(w, min_periods=MinPeriods).std(), in units of 1/Scale
RollingStd(s, w) ==
    Materialise([i \in 1..Len(s) |->
        StdOf(CountRange(s, Max(1, i - w + 1), i), SumRange(s, Max(1, i - w + 1), i),
              SumSqRange(s, Max(1, i - w + 1), i))])

\* (date - date.shift(1)).dt.days
DateDiff(dates) ==
    Materialise([i \in 1..Len(dates) |->
                    IF i = 1 THEN NaN ELSE Num(dates[i] - dates[i - 1])])

Column(df, c) == Materialise([i \in 1..Len(df) |-> df[i][c]])

\* Series.fillna(v)
FillNa(s, v) == Materialise([i \in 1..Len(s) |-> IF IsNum(s[i]) THEN s[i] ELSE Num(v)])

\* Series.clip(lower=lo)
ClipLower(s, lo) ==
    Materialise([i \in 1..Len(s) |->
                    IF IsNum(s[i]) THEN Num(Max(Val(s[i]), lo)) ELSE s[i]])

\* Series.clip(lower=lo, upper=hi)
Clip(s, lo, hi) ==
    Materialise([i \in 1..Len(s) |->
                    IF IsNum(s[i]) THEN Num(Min(Max(Val(s[i]), lo), hi)) ELSE s[i]])

\* the group keys of df.groupby("team_id")
TeamIds(df) == {df[i].team_id : i \in 1..Len(df)}

\* one group of df.groupby("team_id"): the rows of team t, in frame order
Group(df, t) == SelectSeq(df, LAMBDA r : r.team_id = t)

SetMin(S) == CHOOSE x \in S : \A y \in S : x <= y

\* groupby("team_id", group_keys=False).apply(f): the results, in key order
RECURSIVE ConcatGroups(_, _)
ConcatGroups(ts, res) ==
    IF ts = {} THEN <<>>
    ELSE res[SetMin(ts)] \o ConcatGroups(ts \ {SetMin(ts)}, res)

\* the rolling feature columns both calculators attach
FeatureCols ==
    {"pts_mean_5", "opp_pts_mean_5", "margin_mean_5", "pts_std_5", "opp_pts_std_5",
     "rest_days", "gp_prev"}

----------------------------------------------------------------------------
(* predict_for_date._add_team_rolling: the inference calculator *)

\* a count that includes the row's own game
InferGpPrevInclusive(i) == Num(i)

\* line 33: pd.Series(range(len(df))), at the i-th row (i = 1 is the first)
InferGpPrev(i) == Num(i - 1)

\* lines 33-35: the frame with the feature columns attached
InferRows(s, pts_mean, pts_std, opp_mean, opp_std, mgn_mean, rest) ==
    Materialise([i \in 1..Len(s) |->
        [date |-> s[i].date, game_id |-> s[i].game_id,
         start_time |-> s[i].start_time, is_home |-> s[i].is_home,
         team_id |-> s[i].team_id, team_code |-> s[i].team_code,
         opp_id |-> s[i].opp_id, opp_code |-> s[i].opp_code,
         pts |-> s[i].pts, opp_pts |-> s[i].opp_pts, margin |-> s[i].margin,
         pts_mean_5 |-> pts_mean[i], pts_std_5 |-> pts_std[i],
         opp_pts_mean_5 |-> opp_mean[i], opp_pts_std_5 |-> opp_std[i],
         margin_mean_5 |-> mgn_mean[i],
         rest_days |-> rest[i], gp_prev |-> InferGpPrev(i)]])

\* df["pts"] - df["opp_pts"]
PtsMinusOpp(pts, opp) == Materialise([i \in 1..Len(pts) |-> Sub(pts[i], opp[i])])

\* lines 29-30: rest days since the prior game
InferRestDays(dates) == ClipLower(FillNa(DateDiff(dates), DefaultRest), 0)

\* lines 21-30 on the sorted frame: rolling aggregate first, shift second
InferFeatures(s, pts, opp, w) ==
    InferRows(s, Shift(RollingMean(pts, w)), Shift(RollingStd(pts, w)),
              Shift(RollingMean(opp, w)), Shift(RollingStd(opp, w)),
              Shift(RollingMean(PtsMinusOpp(pts, opp), w)),
              InferRestDays(Column(s, "date")))

InferColumns(s, w) == InferFeatures(s, Column(s, "pts"), Column(s, "opp_pts"), w)

\* line 19: sort_values(["date", "game_id"], kind="mergesort")
InferSort(df) == StableSort(df, [i \in 1..Len(df) |-> <<df[i].date, df[i].game_id>>])

InferAddTeamRolling(df, w) == InferColumns(InferSort(df), w)

----------------------------------------------------------------------------
(* build_training_from_games: the training calculator and the training set *)

\* _to_sort_key: the timestamp of date + start_time ("00:00" when missing), in hours
ToSortKey(r) == r.date * 24 + (IF IsNum(r.start_time) THEN Val(r.start_time) ELSE 0)

\* line 51: np.arange(len(df)), at the i-th row (i = 1 is the first)
TrainGpPrev(i) == Num(i - 1)

\* lines 51-63: the frame with the feature columns attached
TrainRows(s, pts_mean, opp_mean, mgn_mean, pts_std, opp_std, mgn_std, rest) ==
    Materialise([i \in 1..Len(s) |->
        [date |-> s[i].date, game_id |-> s[i].game_id,
         start_time |-> s[i].start_time, is_home |-> s[i].is_home,
         team_id |-> s[i].team_id, team_code |-> s[i].team_code,
         pts |-> s[i].pts, opp_pts |-> s[i].opp_pts, margin |-> s[i].margin,
         sort_key |-> s[i].sort_key,
         gp_prev |-> TrainGpPrev(i),
         pts_mean_5 |-> pts_mean[i], opp_pts_mean_5 |-> opp_mean[i],
         margin_mean_5 |-> mgn_mean[i],
         pts_std_5 |-> pts_std[i], opp_pts_std_5 |-> opp_std[i],
         margin_std_5 |-> mgn_std[i],
         rest_days |-> rest[i]]])

\* lines 61-62: days rest, capped to [0, RestCap]
TrainRestDays(dates) == Clip(FillNa(DateDiff(dates), DefaultRest), 0, RestCap)

\* lines 52-62 on the prior-game series: shift first, rolling aggregate second
TrainFeatures(s, s_pts, s_opp, s_mgn, w) ==
    TrainRows(s, RollingMean(s_pts, w), RollingMean(s_opp, w), RollingMean(s_mgn, w),
              RollingStd(s_pts, w), RollingStd(s_opp, w), RollingStd(s_mgn, w),
              TrainRestDays(Column(s, "date")))

\* lines 47-49: the prior-game series
TrainColumns(s, w) ==
    TrainFeatures(s, Shift(Column(s, "pts")), Shift(Column(s, "opp_pts")),
                  Shift(Column(s, "margin")), w)

\* line 44: sort_values(["date", "sort_key"], kind="mergesort")
TrainSort(df) == StableSort(df, [i \in 1..Len(df) |-> <<df[i].date, df[i].sort_key>>])

TrainAddTeamRolling(df, w) == TrainColumns(TrainSort(df), w)

\* a check that forgets start_time
RequiredWithoutStartTime == {"game_id", "date", "is_home", "pts", "opp_pts", "margin"}

\* line 11
REQUIRED_BASE == {"game_id", "date", "is_home", "pts", "opp_pts", "margin", "start_time"}

\* _ensure_team_columns: without a team_id column the team code stands in ("UNK",
\* written 0, for a missing code)
EnsureTeamColumns(log, cols) ==
    IF "team_id" \in cols THEN log
    ELSE Materialise([i \in 1..Len(log) |->
            [log[i] EXCEPT !.team_id =
                IF IsNum(log[i].team_code) THEN Val(log[i].team_code) ELSE 0]])

\* main, lines 87-95: the sort key and the columns kept
WithSortKey(log) ==
    Materialise([i \in 1..Len(log) |->
        [date |-> log[i].date, game_id |-> log[i].game_id,
         start_time |-> log[i].start_time, is_home |-> log[i].is_home,
         team_id |-> log[i].team_id, team_code |-> log[i].team_code,
         pts |-> log[i].pts, opp_pts |-> log[i].opp_pts,
         margin |-> log[i].margin, sort_key |-> ToSortKey(log[i])]])

\* main, lines 97-101: df.groupby("team_id", group_keys=False).apply(_add_team_rolling)
TrainGroupApply(df) ==
    ConcatGroups(TeamIds(df),
                 [t \in TeamIds(df) |-> TrainAddTeamRolling(Group(df, t), Window)])

TrainRolling(log) == TrainGroupApply(WithSortKey(log))

\* pd.merge(h, a, on=["game_id", "date"], how="inner"): one row per matching
\* (home row, away row), in the order of the home rows
MatchesOf(hrow, m) == Materialise([j \in 1..Len(m) |-> [home |-> hrow, away |-> m[j]]])

RECURSIVE MergeInner(_, _)
MergeInner(h, a) ==
    IF Len(h) = 0 THEN <<>>
    ELSE MatchesOf(h[1], SelectSeq(a, LAMBDA r : r.game_id = h[1].game_id
                                                 /\ r.date = h[1].date))
         \o MergeInner(Tail(h), a)

\* g["target_home_margin"] = g["home_pts"] - g["away_pts"]
TargetHomeMargin(home_pts, away_pts) == Sub(home_pts, away_pts)

\* a tie labelled as a home win
TargetHomeWinOrTie(m) == IF IsNum(m) /\ Val(m) >= 0 THEN 1 ELSE 0

\* (g["target_home_margin"] > 0).astype(int): a NaN compares False
TargetHomeWin(m) == IF IsNum(m) /\ Val(m) > 0 THEN 1 ELSE 0

\* a threshold that asks for more than MinPrior prior games
EligibleStrict(home_gp_prev, away_gp_prev) ==
    /\ IsNum(home_gp_prev) /\ Val(home_gp_prev) > MinPrior
    /\ IsNum(away_gp_prev) /\ Val(away_gp_prev) > MinPrior

\* (g["home_gp_prev"] >= 3) & (g["away_gp_prev"] >= 3)
Eligible(home_gp_prev, away_gp_prev) ==
    /\ IsNum(home_gp_prev) /\ Val(home_gp_prev) >= MinPrior
    /\ IsNum(away_gp_prev) /\ Val(away_gp_prev) >= MinPrior

\* lines 113-131: one merged row with its targets
GameRow(hm, aw, mg) ==
    [game_id |-> hm.game_id, date |-> hm.date,
     home_team_id |-> hm.team_id, home_team_code |-> hm.team_code,
     home_pts |-> hm.pts, home_opp_pts |-> hm.opp_pts, home_margin |-> hm.margin,
     home_gp_prev |-> hm.gp_prev, home_rest_days |-> hm.rest_days,
     home_pts_mean_5 |-> hm.pts_mean_5, home_opp_pts_mean_5 |-> hm.opp_pts_mean_5,
     home_margin_mean_5 |-> hm.margin_mean_5,
     home_pts_std_5 |-> hm.pts_std_5, home_opp_pts_std_5 |-> hm.opp_pts_std_5,
     home_margin_std_5 |-> hm.margin_std_5,
     away_team_id |-> aw.team_id, away_team_code |-> aw.team_code,
     away_pts |-> aw.pts, away_opp_pts |-> aw.opp_pts, away_margin |-> aw.margin,
     away_gp_prev |-> aw.gp_prev, away_rest_days |-> aw.rest_days,
     away_pts_mean_5 |-> aw.pts_mean_5, away_opp_pts_mean_5 |-> aw.opp_pts_mean_5,
     away_margin_mean_5 |-> aw.margin_mean_5,
     away_pts_std_5 |-> aw.pts_std_5, away_opp_pts_std_5 |-> aw.opp_pts_std_5,
     away_margin_std_5 |-> aw.margin_std_5,
     target_home_margin |-> mg,
     target_home_win |-> TargetHomeWin(mg)]

\* lines 127-131: the merged frame g with its targets
Labelled(m) ==
    Materialise([i \in 1..Len(m) |->
        GameRow(m[i].home, m[i].away, TargetHomeMargin(m[i].home.pts, m[i].away.pts))])

\* line 135: sort_values(["date", "game_id"])
SortGames(e) == StableSort(e, [i \in 1..Len(e) |-> <<e[i].date, e[i].game_id>>])

\* lines 134-135: the eligible rows, sorted
EligibleRows(g) ==
    SortGames(SelectSeq(g, LAMBDA r : Eligible(r.home_gp_prev, r.away_gp_prev)))

\* main, lines 103-135, over the rolled frame: the training set g_train
TrainingSet(rolled) ==
    EligibleRows(Labelled(MergeInner(SelectSeq(rolled, LAMBDA r : r.is_home),
                                     SelectSeq(rolled, LAMBDA r : ~r.is_home))))

----------------------------------------------------------------------------
(* predict_for_date.main: the as-of rolling features *)

\* lines 191-195: hist.sort_values(...).groupby("team_id").apply(_add_team_rolling)
InferGroupApply(hist) ==
    ConcatGroups(TeamIds(hist),
                 [t \in TeamIds(hist) |-> InferAddTeamRolling(Group(hist, t), Window)])

SortTeamDateGame(h) ==
    StableSort(h, [i \in 1..Len(h) |-> <<h[i].team_id, h[i].date, h[i].game_id>>])

\* lines 189-195: the rows before the target date, rolled per team
InferRolling(log, date_target) ==
    InferGroupApply(SortTeamDateGame(SelectSeq(log, LAMBDA r : r.date < date_target)))

\* the columns kept in asof
AsofRow(r) ==
    [team_id |-> r.team_id, pts_mean_5 |-> r.pts_mean_5,
     opp_pts_mean_5 |-> r.opp_pts_mean_5, margin_mean_5 |-> r.margin_mean_5,
     pts_std_5 |-> r.pts_std_5, opp_pts_std_5 |-> r.opp_pts_std_5,
     rest_days |-> r.rest_days, gp_prev |-> r.gp_prev]

\* groupby("team_id").tail(1): the last row of every team, in frame order
RECURSIVE TailOne(_)
TailOne(s) ==
    IF Len(s) = 0 THEN <<>>
    ELSE IF \E j \in 2..Len(s) : s[j].team_id = s[1].team_id
         THEN TailOne(Tail(s))
         ELSE <<AsofRow(s[1])>> \o TailOne(Tail(s))

\* lines 197-215: sort, groupby("team_id").tail(1), the feature columns
AsofSnapshot(rolled) == TailOne(SortTeamDateGame(rolled))

----------------------------------------------------------------------------
(* predict_for_date.build_pairs_for_date *)

\* lines 96-107: the left merge of one pairs row with the away table on game_id,
\* then fillna of the away identity from the merged columns
FillFrom(c, aux) == IF IsNum(c) THEN c ELSE aux

PairWithAway(p, m) ==
    IF Len(m) = 0 THEN <<p>>
    ELSE Materialise([j \in 1..Len(m) |->
            [p EXCEPT !.away_team_id = FillFrom(@, m[j].team_id),
                      !.away_team_code = FillFrom(@, m[j].team_code)]])

RECURSIVE MergeLeftAway(_, _)
MergeLeftAway(ps, away) ==
    IF Len(ps) = 0 THEN <<>>
    ELSE PairWithAway(ps[1], SelectSeq(away, LAMBDA r : r.game_id = ps[1].game_id))
         \o MergeLeftAway(Tail(ps), away)

\* df: the rows of the daily file of the target date
\* lines 77-94: the home rows with the away identity read from opp_*
PairsFromHome(home) ==
    Materialise([i \in 1..Len(home) |->
        [date |-> home[i].date, game_id |-> home[i].game_id,
         home_team_id |-> home[i].team_id, home_team_code |-> home[i].team_code,
         away_team_id |-> home[i].opp_id, away_team_code |-> home[i].opp_code]])

\* an inner merge with the away table: a game without an away-flagged row is lost
RECURSIVE MergeInnerAway(_, _)
MergeInnerAway(ps, away) ==
    IF Len(ps) = 0 THEN <<>>
    ELSE (IF \E j \in 1..Len(away) : away[j].game_id = ps[1].game_id
          THEN PairWithAway(ps[1], SelectSeq(away, LAMBDA r : r.game_id = ps[1].game_id))
          ELSE <<>>)
         \o MergeInnerAway(Tail(ps), away)

build_pairs_inner(df) ==
    MergeInnerAway(PairsFromHome(SelectSeq(df, LAMBDA r : r.is_home)),
                   SelectSeq(df, LAMBDA r : ~r.is_home))

build_pairs_for_date(df) ==
    MergeLeftAway(PairsFromHome(SelectSeq(df, LAMBDA r : r.is_home)),
                  SelectSeq(df, LAMBDA r : ~r.is_home))

----------------------------------------------------------------------------
(* predict_for_date._features_from_pairs *)

\* the feature columns of an as-of row under a prefix-free name; all NaN when the
\* left merge finds no as-of row for the team
NoFeatures == [c \in FeatureCols |-> NaN]

\* the as-of rows a team id cell (as a string) joins to
AsofMatches(id, asof_roll) ==
    SelectSeq(asof_roll, LAMBDA r : IsNum(id) /\ Val(id) = r.team_id)

\* one side of the left merge: the feature columns of each matching as-of row,
\* or one all-NaN row
SideRows(m) ==
    IF Len(m) = 0 THEN <<NoFeatures>>
    ELSE Materialise([j \in 1..Len(m) |-> [c \in FeatureCols |-> m[j][c]]])

SideFeatures(id, asof_roll) == SideRows(AsofMatches(id, asof_roll))

\* lines 144-145: pairs joined to the home and then to the away features
\* the rows one pair yields: every home match with every away match
JoinSides(p, hs, as) ==
    Materialise([k \in 1..(Len(hs) * Len(as)) |->
        [pair |-> p,
         home |-> hs[((k - 1) \div Len(as)) + 1],
         away |-> as[((k - 1) % Len(as)) + 1]]])

RECURSIVE MergeFeatures(_, _)
MergeFeatures(ps, asof_roll) ==
    IF Len(ps) = 0 THEN <<>>
    ELSE JoinSides(ps[1], SideFeatures(ps[1].home_team_id, asof_roll),
                   SideFeatures(ps[1].away_team_id, asof_roll))
         \o MergeFeatures(Tail(ps), asof_roll)

\* X.fillna(0.0) on one cell
FillZero(c) == IF IsNum(c) THEN c ELSE Num(0)

\* every side filled with 0.0 before the differences are taken
FeatureVectorFilledFirst(home, away) ==
    [diff_pts_mean_5 |-> Sub(FillZero(home.pts_mean_5), FillZero(away.pts_mean_5)),
     diff_opp_pts_mean_5 |->
         Sub(FillZero(home.opp_pts_mean_5), FillZero(away.opp_pts_mean_5)),
     diff_margin_mean_5 |->
         Sub(FillZero(home.margin_mean_5), FillZero(away.margin_mean_5)),
     diff_pts_std_5 |-> Sub(FillZero(home.pts_std_5), FillZero(away.pts_std_5)),
     diff_opp_pts_std_5 |->
         Sub(FillZero(home.opp_pts_std_5), FillZero(away.opp_pts_std_5)),
     diff_rest_days |-> Sub(FillZero(home.rest_days), FillZero(away.rest_days)),
     sum_gp_prev |-> Add(FillZero(home.gp_prev), FillZero(away.gp_prev))]

\* lines 161-169: one row of the model matrix
FeatureVector(home, away) ==
    [diff_pts_mean_5 |-> FillZero(Sub(home.pts_mean_5, away.pts_mean_5)),
     diff_opp_pts_mean_5 |-> FillZero(Sub(home.opp_pts_mean_5, away.opp_pts_mean_5)),
     diff_margin_mean_5 |-> FillZero(Sub(home.margin_mean_5, away.margin_mean_5)),
     diff_pts_std_5 |-> FillZero(Sub(home.pts_std_5, away.pts_std_5)),
     diff_opp_pts_std_5 |-> FillZero(Sub(home.opp_pts_std_5, away.opp_pts_std_5)),
     diff_rest_days |-> FillZero(Sub(home.rest_days, away.rest_days)),
     sum_gp_prev |-> FillZero(Add(home.gp_prev, away.gp_prev))]

\* returns [X, g]: the model matrix and the merged frame
ModelMatrix(g) == Materialise([i \in 1..Len(g) |-> FeatureVector(g[i].home, g[i].away)])

FeaturesResult(g) == [X |-> ModelMatrix(g), g |-> g]

features_from_pairs(ps, asof_roll) == FeaturesResult(MergeFeatures(ps, asof_roll))

----------------------------------------------------------------------------
(* predict_for_date.prob_to_american and the board *)

\* a guard that lets p > 1 through: -100 p / (1 - p) is then a finite positive
\* number, 100 p / (p - 1)
prob_to_american_unbounded(p) ==
    IF ~IsNum(p) \/ Val(p) <= 0 \/ Val(p) = ProbDen THEN NaN
    ELSE IF Val(p) > ProbDen THEN Num(<<100 * Val(p), Val(p) - ProbDen>>)
    ELSE IF 2 * Val(p) >= ProbDen
         THEN Num(<<-100 * Val(p), ProbDen - Val(p)>>)
         ELSE Num(<<100 * (ProbDen - Val(p)), Val(p)>>)

\* an even game priced on the underdog branch
prob_to_american_strict(p) ==
    IF ~IsNum(p) \/ Val(p) <= 0 \/ Val(p) >= ProbDen THEN NaN
    ELSE IF 2 * Val(p) > ProbDen
         THEN Num(<<-100 * Val(p), ProbDen - Val(p)>>)
         ELSE Num(<<100 * (ProbDen - Val(p)), Val(p)>>)

\* p: NaN or the numerator n of p = n / ProbDen.  The result is NaN or the
\* rational <<num, den>> (den > 0) of the moneyline
prob_to_american(p) ==
    IF ~IsNum(p) \/ Val(p) <= 0 \/ Val(p) >= ProbDen THEN NaN
    ELSE IF 2 * Val(p) >= ProbDen
         THEN Num(<<-100 * Val(p), ProbDen - Val(p)>>)
         ELSE Num(<<100 * (ProbDen - Val(p)), Val(p)>>)

\* np.rint of a rational num/den, den > 0: nearest integer, halves to even
RintRat(num, den) ==
    LET q == num \div den
        r == num - q * den
    IN  IF 2 * r < den THEN q
        ELSE IF 2 * r > den THEN q + 1
        ELSE IF q % 2 = 0 THEN q ELSE q + 1

\* np.rint(...).astype("float") on one moneyline: NaN stays NaN
Rint(c) == IF IsNum(c) THEN Num(RintRat(Val(c)[1], Val(c)[2])) ELSE NaN

\* 1.0 - p
OneMinus(p) == IF IsNum(p) THEN Num(ProbDen - Val(p)) ELSE NaN

\* lines 244-245
home_moneyline_nv(p) == Rint(prob_to_american(p))
away_moneyline_nv(p) == Rint(prob_to_american(OneMinus(p)))

\* lines 229-247: the board from the merged frame g and the two models' outputs
\* (pred[i] = <<pred_home_margin, prob_home>> of row i)
BoardRows(g, pred) ==
    Materialise([i \in 1..Len(g) |->
        [date |-> g[i].pair.date, game_id |-> g[i].pair.game_id,
         home_team_code |-> g[i].pair.home_team_code,
         away_team_code |-> g[i].pair.away_team_code,
         pred_home_margin |-> pred[i][1],
         home_spread |-> -pred[i][1],
         prob_home_win |-> pred[i][2],
         home_moneyline_nv |-> home_moneyline_nv(Num(pred[i][2])),
         away_moneyline_nv |-> away_moneyline_nv(Num(pred[i][2]))]])

AssembleBoard(g, pred) == SortGames(BoardRows(g, pred))

----------------------------------------------------------------------------
(* jobs/daily_predict.py: the predictions table *)

\* PRIMARY KEY (date, game_id)
PrimaryKey(x) == <<x.date, x.game_id>>

\* the columns UPSERT_SQL sets on conflict
SetColumns ==
    {"home_team_code", "home_team_name", "away_team_code", "away_team_name",
     "pred_home_margin", "home_spread", "prob_home_win", "home_moneyline_nv",
     "away_moneyline_nv"}

\* the team names travel with the team codes from the daily file to the board
\* (predict_for_date.py lines 229-239); a name is a value determined by the code
NameOf(code) == IF IsNum(code) THEN Num(Val(code) + 1000) ELSE NaN

\* pd.read_csv of board_<date>.csv, line 74: the board's rows with all columns
ReadBoardCsv(rows) ==
    Materialise([i \in 1..Len(rows) |->
        [date |-> rows[i].date, game_id |-> rows[i].game_id,
         home_team_code |-> rows[i].home_team_code,
         home_team_name |-> NameOf(rows[i].home_team_code),
         away_team_code |-> rows[i].away_team_code,
         away_team_name |-> NameOf(rows[i].away_team_code),
         pred_home_margin |-> rows[i].pred_home_margin,
         home_spread |-> rows[i].home_spread,
         prob_home_win |-> rows[i].prob_home_win,
         home_moneyline_nv |-> rows[i].home_moneyline_nv,
         away_moneyline_nv |-> rows[i].away_moneyline_nv]])

\* lines 80-82: the bind parameters of one row; the date is the job's date
PayloadOf(r, today) == [r EXCEPT !.date = today]

\* INSERT ... ON CONFLICT DO NOTHING
UpsertKeepOld(table, x) ==
    IF \E y \in table : PrimaryKey(y) = PrimaryKey(x) THEN table ELSE table \cup {x}

\* UPSERT_SQL: insert, or on a key conflict set the nine columns of the stored row
UPSERT_SQL(table, x) ==
    {y \in table : PrimaryKey(y) # PrimaryKey(x)} \cup {x}

\* lines 76-84: the rows of the board in order, in one transaction
RECURSIVE UpsertAll(_, _, _)
UpsertAll(table, rows, today) ==
    IF Len(rows) = 0 THEN table
    ELSE UpsertAll(UPSERT_SQL(table, PayloadOf(rows[1], today)), Tail(rows), today)

----------------------------------------------------------------------------
(* Calendar dates <<year, month, day>> and the season start *)

\* datetime.date: the proleptic Gregorian calendar
IsLeap(y) == (y % 4 = 0 /\ y % 100 # 0) \/ y % 400 = 0

DaysInMonth(y, m) ==
    IF m = 2 THEN (IF IsLeap(y) THEN 29 ELSE 28)
    ELSE IF m \in {4, 6, 9, 11} THEN 30 ELSE 31

\* days before January 1 of year y, counted from 0001-01-01
DaysBeforeYear(y) ==
    (y - 1) * 365 + ((y - 1) \div 4) - ((y - 1) \div 100) + ((y - 1) \div 400)

RECURSIVE DaysBeforeMonth(_, _)
DaysBeforeMonth(y, m) ==
    IF m = 1 THEN 0 ELSE DaysBeforeMonth(y, m - 1) + DaysInMonth(y, m - 1)

\* date.toordinal
ToOrdinal(d) == DaysBeforeYear(d[1]) + DaysBeforeMonth(d[1], d[2]) + d[3]

\* date.fromordinal, for ordinals of the years around yr
FromOrdinal(n, yr) ==
    LET y == CHOOSE c \in (yr - 2)..(yr + 2) :
                 DaysBeforeYear(c) < n /\ n <= DaysBeforeYear(c + 1)
        r == n - DaysBeforeYear(y)
        m == CHOOSE c \in 1..12 :
                 DaysBeforeMonth(y, c) < r /\ r <= DaysBeforeMonth(y, c) + DaysInMonth(y, c)
    IN  <<y, m, r - DaysBeforeMonth(y, m)>>

\* date - timedelta(days=n)
MinusDays(d, n) == FromOrdinal(ToOrdinal(d) - n, d[1])

\* daily_predict.season_start_for
season_start_for(d) ==
    IF d[2] >= 11 THEN <<d[1], 11, 1>> ELSE MinusDays(<<d[1], 11, 1>>, 365)

\* assemble_history.season_start_year
season_start_year(dt) == IF dt[2] >= 11 THEN dt[1] ELSE dt[1] - 1

----------------------------------------------------------------------------
(* Inputs of the model *)

\* The fixture list: game k (game_id k) is played on Calendar.date[k] at hour
\* Calendar.time[k].  Games 3 and 4 share a day and game 4 tips off first, so the
\* game_id order and the start_time order of that day differ; games 4 and 5 are
\* 17 days apart.
Calendar ==
    [date |-> <<1, 2, 3, 3, 20, 21, 22, 22, 23, 24>>,
     time |-> <<19, 19, 19, 12, 19, 19, 12, 19, 19, 19>>]

LastDate == Calendar.date[Len(Calendar.date)]

\* the first day with two fixtures
DoubleDay ==
    SetMin({d \in 1..LastDate :
              Cardinality({k \in 1..Len(Calendar.date) : Calendar.date[k] = d}) >= 2})

\* <<home team, visiting team>>
Matchups == {<<1, 2>>, <<3, 1>>}
BoardMatchups == {<<1, 2>>, <<2, 3>>}

\* SpecDeep: team 1 plays every fixture, at home and away in turn
Schedule ==
    <<<<1, 2>>, <<3, 1>>, <<1, 2>>, <<3, 1>>, <<1, 2>>, <<3, 1>>, <<1, 2>>, <<3, 1>>,
      <<1, 2>>, <<3, 1>>>>

\* <<home score, visitor score>>: a home win, a tie, an away win, a game without
\* scores
Scores == {<<Num(2), Num(1)>>, <<Num(1), Num(1)>>, <<Num(0), Num(2)>>, <<NaN, NaN>>}
DeepScores == {<<Num(3), Num(1)>>, <<Num(0), Num(2)>>, <<NaN, NaN>>}
BoardScores == {<<Num(3), Num(1)>>}

\* what a daily file holds of a game: both rows (what fetch_day writes), or an
\* incomplete record: one row only, or a home row whose opp_* fields are empty
Shapes == {"full", "home_only", "away_only", "no_opp"}

\* SpecBoard: the files of the days before DoubleDay are complete
BoardShapes(id) == IF Calendar.date[id] < DoubleDay THEN {"full"} ELSE Shapes

\* outputs of the two models on one row: <<pred_home_margin, numerator of prob_home>>
ModelOutputs == {<<5, (3 * ProbDen) \div 4>>, <<-3, ProbDen \div 4>>}

\* a team's display code
CodeOf(t) == 100 + t

\* the payload of fixture id between teams m = <<home, visitor>> with scores sc
Payload(id, m, sc) ==
    [id |-> id, gameday |-> Calendar.date[id], starttime |-> Num(Calendar.time[id]),
     h_id |-> Num(m[1]), v_id |-> Num(m[2]),
     h_code |-> Num(CodeOf(m[1])), v_code |-> Num(CodeOf(m[2])),
     h_pts |-> sc[1], v_pts |-> sc[2]]

\* SpecHistory: the scoreboards saved as daily files.  A game can come back in a
\* later file (a day fetched again, a game listed on two days), with or without
\* scores, and a payload can lack the team ids
HistoryScores == {<<Num(3), Num(1)>>, <<NaN, NaN>>}

NoIds(g) == [g EXCEPT !.h_id = NaN, !.v_id = NaN]

HistoryPayloads ==
    {Payload(id, <<1, 2>>, sc) : id \in 1..2, sc \in HistoryScores}
    \cup {NoIds(Payload(id, <<1, 2>>, sc)) : id \in 1..2, sc \in HistoryScores}

\* a file that pd.read_parquet cannot read
Unreadable == [rows |-> <<>>, readable |-> FALSE]

HistoryFiles ==
    {[rows |-> FetchDayRows(g), readable |-> TRUE] : g \in HistoryPayloads}
    \cup {Unreadable}

\* SpecSchema: the log and the daily directory a run finds, and their columns
SchemaLogs ==
    {AssembleHistory(FetchDayRows(Payload(1, <<1, 2>>, s1))
                     \o FetchDayRows(Payload(2, <<3, 1>>, s2))) :
        s1 \in DeepScores, s2 \in DeepScores}

SchemaDirs == {<<f>> : f \in HistoryFiles}

ColumnSets == {AllColumns} \cup {AllColumns \ {c} : c \in AllColumns}

\* the dates a board can be written for
Dates == 0..(LastDate + 1)

\* no board_<date>.csv
NoBoard == [written |-> FALSE, rows |-> <<>>]

\* the dates daily_predict is run for in SpecUpsert
UpsertDates == {1, 2}

\* the game ids of a board in SpecUpsert, in order; a board can name a game twice
\* (two away rows of one game in the daily file)
UpsertGameLists == {<<>>, <<1>>, <<1, 2>>, <<1, 1>>}

\* the merged frame of a board of games ids on date d
UpsertFrame(d, ids) ==
    Materialise([i \in 1..Len(ids) |->
        [pair |-> [date |-> d, game_id |-> ids[i],
                   home_team_code |-> Num(CodeOf(1)),
                   away_team_code |-> Num(CodeOf(2))]]])

\* every board predict_for_date can write for date d in SpecUpsert
UpsertBoards(d) ==
    UNION {{AssembleBoard(UpsertFrame(d, ids), pred) :
                pred \in [1..Len(ids) -> ModelOutputs]} : ids \in UpsertGameLists}

\* the years of SpecSeason: a leap year and its neighbours
SeasonYears == 2023..2025

\* every calendar date of SeasonYears
SeasonDates ==
    {<<y, m, d>> : y \in SeasonYears, m \in 1..12, d \in 1..31} \
    {<<y, m, d>> \in SeasonYears \X (1..12) \X (1..31) : d > DaysInMonth(y, m)}

NoDate == <<0, 0, 0>>

\* the days daily_predict.main is run on in SpecJob
JobDays == 1..(DoubleDay + 1)

\* the first day of the season: season_start_for(today) in the model's day numbers
SeasonOpen == Calendar.date[1]

\* the fixtures of the days first..last that have no daily file in dir
MissingFixtures(dir, first, last) ==
    {id \in 1..Len(Calendar.date) :
        /\ Calendar.date[id] \in first..last
        /\ \A i \in 1..Len(dir) : dir[i].date # Calendar.date[id]}

\* the rows fetch_interstat saves for the fixtures ids, every game ending sc
RECURSIVE FetchedRows(_, _)
FetchedRows(ids, sc) ==
    IF ids = {} THEN <<>>
    ELSE FetchDayRows(Payload(SetMin(ids), Schedule[SetMin(ids)], sc))
            \o FetchedRows(ids \ {SetMin(ids)}, sc)

----------------------------------------------------------------------------
(* State machine *)

Init ==
    /\ daily_dir = <<>>
    /\ games = <<>>
    /\ pc = "ingest"
    /\ train_roll = <<>>
    /\ training = <<>>
    /\ target = 0
    /\ roll = <<>>
    /\ asof = <<>>
    /\ pairs = <<>>
    /\ X = <<>>
    /\ board = <<>>
    /\ prob = NaN
    /\ moneyline = <<>>
    /\ files = <<>>
    /\ columns = AllColumns
    /\ games_teams = <<>>
    /\ historical = <<>>
    /\ predictions = {}
    /\ boards = [d \in Dates |-> NoBoard]
    /\ job = [step |-> "idle", today |-> 0, clean |-> TRUE]
    /\ season = [d |-> NoDate, start |-> NoDate, year |-> 0]

\* the game ids in the daily files
GameIds(rows) == {rows[i].game_id : i \in 1..Len(rows)}

\* the rows of one game as a daily file holds them
ShapeRows(rows, shape) ==
    CASE shape = "full" -> rows
      [] shape = "home_only" -> <<rows[2]>>
      [] shape = "away_only" -> <<rows[1]>>
      [] shape = "no_opp" -> <<rows[1], [rows[2] EXCEPT !.opp_id = NaN, !.opp_code = NaN]>>

\* the daily files read back in file-name, i.e. date, order
FileOrder(all) == StableSort(all, [i \in 1..Len(all) |-> <<all[i].date>>])

\* fetch_interstat.main for the day of the next fixture, then assemble_history.main:
\* the game's rows are saved in the daily file of their date and games_all.parquet
\* is rebuilt from all daily files
FetchGame(limit, matchups, scores, shapes) ==
    /\ pc = "ingest"
    /\ Cardinality(GameIds(daily_dir)) < limit
    /\ \E m \in matchups, sc \in scores, shape \in shapes :
          daily_dir' = FileOrder(daily_dir \o
              ShapeRows(FetchDayRows(Payload(Cardinality(GameIds(daily_dir)) + 1, m, sc)),
                        shape))
    /\ games' = AssembleHistory(daily_dir')
    /\ UNCHANGED <<pc, train_roll, training, target, roll, asof, pairs, X, board,
                   prob, moneyline>>
    /\ UNCHANGED <<HistoryVars, ServingVars>>

\* build_training_from_games.main on the current log
BuildTraining ==
    /\ pc = "ingest"
    /\ Len(games) > 0
    /\ IF REQUIRED_BASE \subseteq columns
       THEN /\ train_roll' = TrainRolling(EnsureTeamColumns(games, columns))
            /\ training' = TrainingSet(train_roll')
            /\ pc' = "trained"
       ELSE /\ pc' = "schema_error"
            /\ UNCHANGED <<train_roll, training>>
    /\ UNCHANGED <<daily_dir, games, target, roll, asof, pairs, X, board, prob, moneyline>>
    /\ UNCHANGED <<HistoryVars, ServingVars>>

\* predict_for_date.main, lines 221-251: the models' outputs and the board.  The
\* two models are opaque: any outputs, and on an empty matrix possibly an error
PredictAndSave(f, outputs) ==
    /\ X' = f.X
    /\ \/ \E pred \in [1..Len(f.g) -> outputs] :
             /\ board' = AssembleBoard(f.g, pred)
             /\ pc' = "predicted"
       \/ /\ Len(f.g) = 0
          /\ pc' = "model_failed"
          /\ UNCHANGED board

\* predict_for_date.main, lines 217-219, given roll, asof and the rows of the
\* daily file: without a daily file build_pairs_for_date raises FileNotFoundError
PairsAndFeatures(file, outputs) ==
    IF Len(file) = 0
    THEN /\ pc' = "no_daily_file"
         /\ UNCHANGED <<pairs, X, board>>
    ELSE /\ pairs' = build_pairs_for_date(file)
         /\ PredictAndSave(features_from_pairs(pairs', asof'), outputs)

\* predict_for_date.main for one target date.  With no row before the target
\* date the rolled frame has no feature columns and selecting them (line 201)
\* fails
PredictForDate(targets, outputs) ==
    /\ pc = "ingest"
    /\ Len(games) > 0
    /\ \E t \in targets : target' = t
    /\ IF \A i \in 1..Len(games) : games[i].date >= target'
       THEN /\ pc' = "no_history"
            /\ UNCHANGED <<roll, asof, pairs, X, board>>
       ELSE /\ roll' = InferRolling(games, target')
            /\ asof' = AsofSnapshot(roll')
            /\ PairsAndFeatures(SelectSeq(daily_dir, LAMBDA x : x.date = target'), outputs)
    /\ UNCHANGED <<daily_dir, games, train_roll, training, prob, moneyline>>

\* predict_for_date.main run by hand, outside the daily job
RunPredict(targets, outputs) ==
    /\ PredictForDate(targets, outputs)
    /\ UNCHANGED <<HistoryVars, ServingVars>>

\* predict_for_date.main, lines 244-245, on one probability
PriceOdds ==
    /\ pc = "ingest"
    /\ moneyline' = <<home_moneyline_nv(prob), away_moneyline_nv(prob)>>
    /\ pc' = "priced"
    /\ UNCHANGED <<daily_dir, games, train_roll, training, target, roll, asof, pairs,
                   X, board, prob>>
    /\ UNCHANGED <<HistoryVars, ServingVars>>

\* fetch_interstat.main: one more daily file in the directory (file names are
\* dates, so the new file sorts last)
SaveFile(limit, menu) ==
    /\ pc = "ingest"
    /\ Len(files) < limit
    /\ \E f \in menu : files' = Append(files, f)
    /\ UNCHANGED <<daily_dir, games, pc, train_roll, training, target, roll, asof, pairs,
                   X, board, prob, moneyline>>
    /\ UNCHANGED <<columns, games_teams, historical, ServingVars>>

\* build_history.main: no files: return; unreadable files are skipped; pd.concat
\* of no frame at all raises
RunBuildHistory ==
    /\ pc = "ingest"
    /\ IF Len(files) = 0
       THEN pc' = "no_files" /\ UNCHANGED games_teams
       ELSE IF Len(ReadableFiles(files)) = 0
       THEN pc' = "build_history_failed" /\ UNCHANGED games_teams
       ELSE /\ games_teams' = build_history(files)
            /\ pc' = "build_history_done"
    /\ UNCHANGED <<daily_dir, games, train_roll, training, target, roll, asof, pairs,
                   X, board, prob, moneyline>>
    /\ UNCHANGED <<files, columns, historical, ServingVars>>

\* the columns assemble_history.main indexes
AssembleColumns == {"date", "is_home", "team_id", "opp_id", "game_id"}

\* assemble_history.main over the directory: no files: SystemExit; the reads
\* (lines 17-20) are unguarded, so one unreadable file ends the run
RunAssembleHistory ==
    /\ pc = "ingest"
    /\ IF \/ Len(files) = 0
          \/ \E i \in 1..Len(files) : ~files[i].readable
          \/ ~(AssembleColumns \subseteq columns)
       THEN pc' = "assemble_failed" /\ UNCHANGED games
       ELSE /\ games' = AssembleHistory(ConcatFiles(files))
            /\ pc' = "assemble_done"
    /\ UNCHANGED <<daily_dir, train_roll, training, target, roll, asof, pairs,
                   X, board, prob, moneyline>>
    /\ UNCHANGED <<HistoryVars, ServingVars>>

\* ingest_range.build_historical, line 55
RequiredDaily == {"date", "game_id", "team_id"}

\* ingest_range.build_historical: no files, or nothing readable: return; a missing
\* required column: RuntimeError before anything is written
RunBuildHistorical ==
    /\ pc = "ingest"
    /\ IF Len(files) = 0
       THEN pc' = "no_files" /\ UNCHANGED historical
       ELSE IF Len(ReadableFiles(files)) = 0
       THEN pc' = "nothing_readable" /\ UNCHANGED historical
       ELSE IF ~(RequiredDaily \subseteq columns)
       THEN pc' = "historical_schema_error" /\ UNCHANGED historical
       ELSE /\ historical' = build_historical(files)
            /\ pc' = "historical_done"
    /\ UNCHANGED <<daily_dir, games, train_roll, training, target, roll, asof, pairs,
                   X, board, prob, moneyline>>
    /\ UNCHANGED <<files, columns, games_teams, ServingVars>>

\* daily_predict.main, step 3 seen from the job: predict_for_date writes
\* board_<today>.csv (predict_for_date.py lines 249-251)
WriteBoard(dates) ==
    /\ job.step \in {"idle", "done"}
    /\ \E d \in dates : \E b \in UpsertBoards(d) :
          /\ boards' = [boards EXCEPT ![d] = [written |-> TRUE, rows |-> b]]
          /\ job' = [job EXCEPT !.step = "upsert", !.today = d]
    /\ UNCHANGED <<daily_dir, games, pc, train_roll, training, target, roll, asof, pairs,
                   X, board, prob, moneyline>>
    /\ UNCHANGED <<HistoryVars, predictions, season>>

\* daily_predict.main, step 4, lines 72-85: read the board of today and upsert
\* its rows; without the file pd.read_csv raises
JobUpsert ==
    /\ job.step = "upsert"
    /\ IF boards[job.today].written
       THEN /\ predictions' = UpsertAll(predictions,
                                        ReadBoardCsv(boards[job.today].rows), job.today)
            /\ job' = [job EXCEPT !.step = "done"]
       ELSE /\ job' = [job EXCEPT !.step = "failed"]
            /\ UNCHANGED predictions
    /\ UNCHANGED <<daily_dir, games, pc, train_roll, training, target, roll, asof, pairs,
                   X, board, prob, moneyline>>
    /\ UNCHANGED <<HistoryVars, boards, season>>

\* daily_predict.main, line 59, and assemble_history.main, line 34, on one date
ComputeSeasonStart ==
    /\ season.d # NoDate
    /\ season.start = NoDate
    /\ season' = [season EXCEPT !.start = season_start_for(season.d),
                                !.year = season_start_year(season.d)]
    /\ UNCHANGED <<daily_dir, games, pc, train_roll, training, target, roll, asof, pairs,
                   X, board, prob, moneyline>>
    /\ UNCHANGED <<HistoryVars, predictions, boards, job>>

\* daily_predict.main, lines 57-59: the job starts on day t; clean records whether
\* the daily directory holds no file for t at that moment
JobStart(days) ==
    /\ pc = "ingest"
    /\ job.step = "idle"
    /\ \E t \in days :
          job' = [step |-> "fetch", today |-> t,
                  clean |-> \A i \in 1..Len(daily_dir) : daily_dir[i].date # t]
    /\ UNCHANGED <<daily_dir, games, pc, train_roll, training, target, roll, asof, pairs,
                   X, board, prob, moneyline>>
    /\ UNCHANGED <<HistoryVars, predictions, boards, season>>

\* step 1, lines 62-64: fetch_interstat_range from the season start through
\* yesterday; days with a file are skipped, every other day's scoreboard is
\* fetched and saved, and the range run exits 0 whatever its fetches did
JobFetch(scores) ==
    /\ job.step = "fetch"
    /\ \E sc \in scores :
          daily_dir' = FileOrder(daily_dir \o
              FetchedRows(MissingFixtures(daily_dir, SeasonOpen, job.today - 1), sc))
    /\ job' = [job EXCEPT !.step = "assemble"]
    /\ UNCHANGED <<games, pc, train_roll, training, target, roll, asof, pairs,
                   X, board, prob, moneyline>>
    /\ UNCHANGED <<HistoryVars, predictions, boards, season>>

\* step 2, line 67: assemble_history.main; without daily files it exits with an
\* error and check=True ends the job
JobAssemble ==
    /\ job.step = "assemble"
    /\ IF Len(daily_dir) = 0
       THEN /\ job' = [job EXCEPT !.step = "failed"]
            /\ UNCHANGED games
       ELSE /\ games' = AssembleHistory(daily_dir)
            /\ job' = [job EXCEPT !.step = "predict"]
    /\ UNCHANGED <<daily_dir, pc, train_roll, training, target, roll, asof, pairs,
                   X, board, prob, moneyline>>
    /\ UNCHANGED <<HistoryVars, predictions, boards, season>>

\* step 3, line 70: predict_for_date.main for today; a run that ends in an
\* exception ends the job, a run that completes has written board_<today>.csv
JobPredict(outputs) ==
    /\ job.step = "predict"
    /\ PredictForDate({job.today}, outputs)
    /\ IF pc' = "predicted"
       THEN /\ boards' = [boards EXCEPT ![job.today] = [written |-> TRUE, rows |-> board']]
            /\ job' = [job EXCEPT !.step = "upsert"]
       ELSE /\ job' = [job EXCEPT !.step = "failed"]
            /\ UNCHANGED boards
    /\ UNCHANGED <<HistoryVars, predictions, season>>

\* Spec: the training path over every league of MaxGames fixtures
Next ==
    \/ FetchGame(MaxGames, Matchups, Scores, {"full"})
    \/ BuildTraining

Spec == Init /\ [][Next]_vars

\* SpecDeep: one team plays every fixture, both runs read the whole log
NextDeep ==
    \/ FetchGame(MaxDeepGames, {Schedule[Cardinality(GameIds(daily_dir)) + 1]},
                 DeepScores, {"full"})
    \/ BuildTraining
    \/ RunPredict({LastDate + 1}, ModelOutputs)

SpecDeep == Init /\ [][NextDeep]_vars

\* SpecLeak: the first fixtures of SpecDeep
NextLeak ==
    \/ FetchGame(MaxLeakGames, {Schedule[Cardinality(GameIds(daily_dir)) + 1]},
                 DeepScores, {"full"})
    \/ BuildTraining
    \/ RunPredict({LastDate + 1}, ModelOutputs)

SpecLeak == Init /\ [][NextLeak]_vars

\* SpecBoard: the prediction run over complete and incomplete daily files
NextBoard ==
    \/ FetchGame(MaxBoardGames, BoardMatchups, BoardScores,
                 BoardShapes(Cardinality(GameIds(daily_dir)) + 1))
    \/ RunPredict(1..DoubleDay, ModelOutputs)

SpecBoard == Init /\ [][NextBoard]_vars

\* SpecHistory: the three history builders over every directory of MaxFiles files
NextHistory ==
    \/ SaveFile(MaxFiles, HistoryFiles)
    \/ RunBuildHistory
    \/ RunAssembleHistory
    \/ RunBuildHistorical

SpecHistory == Init /\ [][NextHistory]_vars

\* SpecSchema: the training builder and build_historical on frames that may lack
\* a column
InitSchema ==
    /\ Init!1 /\ Init!3 /\ Init!4 /\ Init!5 /\ Init!6 /\ Init!7 /\ Init!8
    /\ Init!9 /\ Init!10 /\ Init!11 /\ Init!12 /\ Init!13
    /\ Init!16 /\ Init!17 /\ Init!18 /\ Init!19 /\ Init!20 /\ Init!21
    /\ games \in SchemaLogs
    /\ files \in SchemaDirs
    /\ columns \in ColumnSets

NextSchema ==
    \/ BuildTraining
    \/ RunBuildHistorical

SpecSchema == InitSchema /\ [][NextSchema]_vars

\* SpecOdds: the odds converter on every probability k / ProbDen, on values outside
\* [0, 1] and on NaN
InitOdds ==
    /\ Init!1 /\ Init!2 /\ Init!3 /\ Init!4 /\ Init!5 /\ Init!6 /\ Init!7
    /\ Init!8 /\ Init!9 /\ Init!10 /\ Init!11 /\ Init!13
    /\ Init!14 /\ Init!15 /\ Init!16 /\ Init!17 /\ Init!18 /\ Init!19 /\ Init!20
    /\ Init!21
    /\ prob \in {NaN} \cup {Num(n) : n \in (0 - 2)..(ProbDen + 2)}

NextOdds == PriceOdds

SpecOdds == InitOdds /\ [][NextOdds]_vars

\* SpecUpsert: daily_predict run again and again for UpsertDates, the board of
\* each run any of UpsertBoards
NextUpsert ==
    \/ WriteBoard(UpsertDates)
    \/ JobUpsert

SpecUpsert == Init /\ [][NextUpsert]_vars

\* SpecSeason: the two season functions on every date of SeasonYears
InitSeason ==
    /\ Init!1 /\ Init!2 /\ Init!3 /\ Init!4 /\ Init!5 /\ Init!6 /\ Init!7
    /\ Init!8 /\ Init!9 /\ Init!10 /\ Init!11 /\ Init!12 /\ Init!13
    /\ Init!14 /\ Init!15 /\ Init!16 /\ Init!17 /\ Init!18 /\ Init!19 /\ Init!20
    /\ season \in {[d |-> x, start |-> NoDate, year |-> 0] : x \in SeasonDates}

NextSeason == ComputeSeasonStart

SpecSeason == InitSeason /\ [][NextSeason]_vars

\* SpecJob: one run of the daily job on a directory that holds the files of the
\* first fixtures (earlier runs, fetches by hand)
NextJob ==
    \/ (job.step = "idle" /\ FetchGame(MaxBoardGames,
                                       {Schedule[Cardinality(GameIds(daily_dir)) + 1]},
                                       DeepScores, {"full"}))
    \/ JobStart(JobDays)
    \/ JobFetch(BoardScores)
    \/ JobAssemble
    \/ JobPredict(ModelOutputs)
    \/ JobUpsert

SpecJob == Init /\ [][NextJob]_vars

----------------------------------------------------------------------------
(* Properties: shared definitions *)

LexLess(a, b) == LexLeq(a, b) /\ a # b

\* the states in which predict_for_date.main has computed roll and asof
AsofComputed == pc \in {"no_daily_file", "predicted", "model_failed"}

\* the ordering key of each calculator: (date, start_time) in training,
\* (date, game_id) in inference
TrainKey(r) == <<r.date, ToSortKey(r)>>
InferKey(r) == <<r.date, r.game_id>>

\* the log rows of r's team that come before r under the training order
TrainPrior(r) ==
    {j \in 1..Len(games) : /\ games[j].team_id = r.team_id
                            /\ LexLess(TrainKey(games[j]), TrainKey(r))}

\* the log rows of r's team that come before r under the inference order
InferPrior(r) ==
    {j \in 1..Len(games) : /\ games[j].team_id = r.team_id
                            /\ games[j].date < target
                            /\ LexLess(InferKey(games[j]), InferKey(r))}

\* the sum and the count of the known values of column c over the log rows S
RECURSIVE SumOver(_, _)
SumOver(S, c) ==
    IF S = {} THEN 0
    ELSE LET j == CHOOSE x \in S : TRUE
         IN  (IF IsNum(games[j][c]) THEN Val(games[j][c]) ELSE 0) + SumOver(S \ {j}, c)

CountOver(S, c) == Cardinality({j \in S : IsNum(games[j][c])})

\* cell m (in units of 1/Scale) is the arithmetic mean of the known values of
\* column c over the log rows S; NaN when none is known
IsMeanOver(m, S, c) ==
    IF CountOver(S, c) = 0 THEN m = NaN
    ELSE IsNum(m) /\ Val(m) * CountOver(S, c) = Scale * SumOver(S, c)

\* the feature columns of a rolled row
Features(r) == [c \in FeatureCols |-> r[c]]

----------------------------------------------------------------------------
(* C1: no leakage *)

\* the scores a game's result is changed to
AltScores == {<<Num(9), Num(7)>>, <<NaN, NaN>>}

\* the log with the result of game gid changed to sc = <<home score, visitor score>>
MutateGame(log, gid, sc) ==
    Materialise([i \in 1..Len(log) |->
        IF log[i].game_id # gid THEN log[i]
        ELSE IF log[i].is_home
        THEN [log[i] EXCEPT !.pts = sc[1], !.opp_pts = sc[2], !.margin = Sub(sc[1], sc[2])]
        ELSE [log[i] EXCEPT !.pts = sc[2], !.opp_pts = sc[1], !.margin = Sub(sc[2], sc[1])]])

\* the rows of game gid sit at the same places of both frames with the same features
SameFeaturesOf(gid, frame, mutated) ==
    /\ Len(mutated) = Len(frame)
    /\ \A i \in 1..Len(frame) :
          frame[i].game_id = gid =>
              /\ mutated[i].game_id = gid
              /\ mutated[i].team_id = frame[i].team_id
              /\ Features(mutated[i]) = Features(frame[i])

\* C1: in the frame either calculator produced, the rolling features of the rows
\* of a game do not change when that game's pts / opp_pts / margin are changed in
\* the log and the calculator is run again.
C1_NoLeakage ==
    /\ pc = "trained" =>
          \A gid \in GameIds(games), sc \in AltScores :
              SameFeaturesOf(gid, train_roll, TrainRolling(MutateGame(games, gid, sc)))
    /\ AsofComputed =>
          \A gid \in GameIds(games), sc \in AltScores :
              SameFeaturesOf(gid, roll, InferRolling(MutateGame(games, gid, sc), target))

\* a training run in which changing the first game's result does change the
\* features of the later rows of its teams
C1_Witness ==
    /\ pc = "trained"
    /\ Len(train_roll) >= 8
    /\ \E sc \in AltScores : TrainRolling(MutateGame(games, 1, sc)) # train_roll

----------------------------------------------------------------------------
(* C2: the as-of snapshot *)

\* the log rows of team t dated before the target date
PlayedBefore(t) ==
    {j \in 1..Len(games) : games[j].team_id = t /\ games[j].date < target}

\* of the log rows S of one team, the last Window in the inference order
LastGames(S) ==
    {j \in S : Cardinality({i \in S : LexLess(InferKey(games[j]), InferKey(games[i]))})
                    < Window}

\* the date of the most recent of the log rows S
LastPlayed(S) == CHOOSE d \in {games[j].date : j \in S} : \A j \in S : games[j].date <= d

\* the snapshot row a reflects all the games S of its team before the target date
ReflectsAll(a, S) ==
    /\ a.gp_prev = Num(Cardinality(S))
    /\ IsMeanOver(a.pts_mean_5, LastGames(S), "pts")
    /\ IsMeanOver(a.opp_pts_mean_5, LastGames(S), "opp_pts")
    /\ IsMeanOver(a.margin_mean_5, LastGames(S), "margin")
    /\ a.rest_days = Num(target - LastPlayed(S))

\* C2: for a target date D and a team with k >= 1 games before D, the snapshot row
\* kept for the team has gp_prev = k, means over the last min(k,5) of those games,
\* the most recent one included, and rest_days = D minus the date of the most
\* recent one.
C2_AsofSnapshot ==
    AsofComputed =>
        /\ \A i \in 1..Len(asof) : ReflectsAll(asof[i], PlayedBefore(asof[i].team_id))
        /\ \A t \in TeamIds(games) :
              PlayedBefore(t) # {} => \E i \in 1..Len(asof) : asof[i].team_id = t

----------------------------------------------------------------------------
(* C3: the rolling window *)

\* the prior rows (a set of log rows) that fall in the window of a row with
\* `prior` as its prior rows: the last five of them
WindowOf(prior, Before(_)) ==
    {j \in prior : Cardinality(prior) - Cardinality(Before(games[j])) <= 5}

\* the means of r are the means over its window, the standard deviations are
\* defined exactly when the window holds two known values
WindowValues(r, W) ==
    /\ IsMeanOver(r.pts_mean_5, W, "pts")
    /\ IsMeanOver(r.opp_pts_mean_5, W, "opp_pts")
    /\ IsMeanOver(r.margin_mean_5, W, "margin")
    /\ IsNum(r.pts_std_5) <=> CountOver(W, "pts") >= 2
    /\ IsNum(r.opp_pts_std_5) <=> CountOver(W, "opp_pts") >= 2
    /\ Cardinality(W) < 2 => r.pts_std_5 = NaN /\ r.opp_pts_std_5 = NaN
    /\ Cardinality(W) = 0 =>
          r.pts_mean_5 = NaN /\ r.opp_pts_mean_5 = NaN /\ r.margin_mean_5 = NaN

\* C3: the K-th row of a team (in the calculator's order) carries the arithmetic
\* means of pts, opp_pts and margin over exactly that team's games
\* max(1, K-5) .. K-1 (over those with a known score); the means are undefined for
\* K = 1 and the standard deviations whenever the window holds fewer than two games.
C3_RollingWindow ==
    /\ pc = "trained" =>
          \A k \in 1..Len(train_roll) :
              WindowValues(train_roll[k], WindowOf(TrainPrior(train_roll[k]), TrainPrior))
    /\ AsofComputed =>
          \A k \in 1..Len(roll) :
              WindowValues(roll[k], WindowOf(InferPrior(roll[k]), InferPrior))

\* a seventh row whose window mean differs from the mean over all six prior games:
\* the oldest game has dropped out and it shows
C3_Witness ==
    /\ pc = "trained"
    /\ \E k \in 1..Len(train_roll) :
          /\ Cardinality(TrainPrior(train_roll[k])) >= 6
          /\ IsNum(train_roll[k].pts_mean_5)
          /\ ~IsMeanOver(train_roll[k].pts_mean_5, TrainPrior(train_roll[k]), "pts")

----------------------------------------------------------------------------
(* C4: gp_prev *)

\* C4: gp_prev of a row is the number of its team's games that come before it in
\* the calculator's order: 0 for the first, K-1 for the K-th, whatever the other
\* teams' rows and the dates.
C4_GpPrev ==
    /\ pc = "trained" =>
          \A k \in 1..Len(train_roll) :
              train_roll[k].gp_prev = Num(Cardinality(TrainPrior(train_roll[k])))
    /\ AsofComputed =>
          \A k \in 1..Len(roll) :
              roll[k].gp_prev = Num(Cardinality(InferPrior(roll[k])))

\* a prediction run over a log in which one team has a seventh game (gp_prev 6)
\* and another team fewer
C4_Witness ==
    /\ AsofComputed
    /\ \E k \in 1..Len(roll) : roll[k].gp_prev = Num(6)
    /\ \E k \in 1..Len(roll) : roll[k].date > 3 /\ roll[k].gp_prev = Num(2)

----------------------------------------------------------------------------
(* C5: game pairing *)

\* the states in which build_pairs_for_date has returned
PairsBuilt == pc \in {"predicted", "model_failed"}

\* the rows of the daily file of the target date
DailyFile == SelectSeq(daily_dir, LAMBDA r : r.date = target)

\* the rows of game gid in the daily file, home-flagged or away-flagged
FileRowsOf(gid, home) == SelectSeq(DailyFile, LAMBDA r : r.game_id = gid /\ r.is_home = home)

PairsOf(gid) == SelectSeq(pairs, LAMBDA r : r.game_id = gid)

\* every game of the file has at most one home-flagged and one away-flagged row
WellFormedFile ==
    \A gid \in GameIds(DailyFile) :
        Len(FileRowsOf(gid, TRUE)) <= 1 /\ Len(FileRowsOf(gid, FALSE)) <= 1

\* C5: on a daily file with at most one home-flagged and one away-flagged row per
\* game, build_pairs_for_date returns exactly one row for each game with a
\* home-flagged row, carrying that row's team as the home team, and no row for any
\* other game.
C5_Pairing ==
    (PairsBuilt /\ WellFormedFile) =>
        /\ \A gid \in GameIds(DailyFile) :
              IF Len(FileRowsOf(gid, TRUE)) = 1
              THEN /\ Len(PairsOf(gid)) = 1
                   /\ PairsOf(gid)[1].home_team_id = FileRowsOf(gid, TRUE)[1].team_id
                   /\ PairsOf(gid)[1].home_team_code = FileRowsOf(gid, TRUE)[1].team_code
                   /\ PairsOf(gid)[1].date = target
              ELSE Len(PairsOf(gid)) = 0
        /\ \A i \in 1..Len(pairs) : pairs[i].game_id \in GameIds(DailyFile)

\* a daily file with a game that has only an away-flagged row, left out, and a
\* game that has only a home-flagged row, kept
C5_Witness ==
    /\ PairsBuilt
    /\ \E gid \in GameIds(DailyFile) :
          Len(FileRowsOf(gid, TRUE)) = 0 /\ Len(PairsOf(gid)) = 0
    /\ \E gid \in GameIds(DailyFile) :
          Len(FileRowsOf(gid, FALSE)) = 0 /\ Len(PairsOf(gid)) = 1

----------------------------------------------------------------------------
(* C6: the feature vector *)

\* the value of column c the as-of table holds for the team of id cell `id`;
\* undefined when the team is not in the table
AsofValue(id, c) ==
    IF IsNum(id) /\ \E k \in 1..Len(asof) : asof[k].team_id = Val(id)
    THEN asof[CHOOSE k \in 1..Len(asof) : asof[k].team_id = Val(id)][c]
    ELSE NaN

\* x is hv - av (sign = -1) or hv + av (sign = 1) when both are defined, else 0.0
Combined(x, hv, av, sign) ==
    IF IsNum(hv) /\ IsNum(av) THEN x = Num(Val(hv) + sign * Val(av)) ELSE x = Num(0)

\* row x of the matrix is built from the as-of values of the two teams of pair p
VectorOf(x, p) ==
    /\ \A c \in FeatureCols \ {"gp_prev"} :
          Combined(x["diff_" \o c], AsofValue(p.home_team_id, c),
                   AsofValue(p.away_team_id, c), 0 - 1)
    /\ Combined(x.sum_gp_prev, AsofValue(p.home_team_id, "gp_prev"),
                AsofValue(p.away_team_id, "gp_prev"), 1)
    /\ \A f \in DOMAIN x : IsNum(x[f])

\* C6: every feature of the model matrix is home minus away (home plus away for
\* sum_gp_prev) when both sides are defined and exactly 0.0 when either side is
\* undefined; no cell is undefined and the matrix has one row per pair.
C6_Defaulting ==
    PairsBuilt =>
        /\ Len(X) = Len(pairs)
        /\ \A i \in 1..Len(X) : VectorOf(X[i], pairs[i])

\* a matrix with a difference of two defined means that is not zero, a feature
\* that is 0.0 because the away team has no prior mean while the home team has
\* one, and a pair whose away team is not in the as-of table
C6_Witness ==
    /\ PairsBuilt
    /\ \E i \in 1..Len(X) :
          /\ IsNum(AsofValue(pairs[i].away_team_id, "pts_mean_5"))
          /\ Val(X[i].diff_pts_mean_5) # 0
    /\ \E i \in 1..Len(X) :
          /\ IsNum(AsofValue(pairs[i].home_team_id, "pts_mean_5"))
          /\ Val(AsofValue(pairs[i].home_team_id, "pts_mean_5")) # 0
          /\ AsofValue(pairs[i].away_team_id, "pts_mean_5") = NaN
          /\ X[i].diff_pts_mean_5 = Num(0)
    /\ \E i \in 1..Len(X) :
          /\ AsofValue(pairs[i].away_team_id, "gp_prev") = NaN
          /\ Val(AsofValue(pairs[i].home_team_id, "gp_prev")) > 0
          /\ X[i].sum_gp_prev = Num(0)

----------------------------------------------------------------------------
(* C7: training / inference parity *)

\* two rolled frames of one team: the same games in the same order with the same
\* feature values
SameRolled(a, b) ==
    /\ Len(a) = Len(b)
    /\ \A i \in 1..Len(a) :
          i <= Len(b) => a[i].game_id = b[i].game_id /\ Features(a[i]) = Features(b[i])

\* C7: for every team history the training calculator and the inference
\* calculator give the same row order and the same values of the seven rolling
\* features.
C7_Parity ==
    pc = "trained" =>
        \A t \in TeamIds(games) :
            SameRolled(Group(train_roll, t), InferAddTeamRolling(Group(games, t), Window))

----------------------------------------------------------------------------
(* C8: training eligibility *)

\* the rows of game gid on one side, in a rolled frame
SideRowsOf(frame, gid, home) ==
    SelectSeq(frame, LAMBDA r : r.game_id = gid /\ r.is_home = home)

\* the training rows of game gid
TrainingRowsOf(gid) == SelectSeq(training, LAMBDA r : r.game_id = gid)

\* game gid, with home row h and away row a of the rolled frame, is in the
\* training set once if both sides have three prior games, and not at all if not
PresentIffEligible(gid, h, a) ==
    IF Val(h.gp_prev) >= 3 /\ Val(a.gp_prev) >= 3
    THEN /\ Len(TrainingRowsOf(gid)) = 1
         /\ TrainingRowsOf(gid)[1].home_team_id = h.team_id
         /\ TrainingRowsOf(gid)[1].away_team_id = a.team_id
         /\ TrainingRowsOf(gid)[1].home_gp_prev = h.gp_prev
         /\ TrainingRowsOf(gid)[1].away_gp_prev = a.gp_prev
    ELSE Len(TrainingRowsOf(gid)) = 0

----------------------------------------------------------------------------
(* C9: training labels *)

\* the points of the home (or away) team of game gid in the log
LogPts(gid, home) ==
    (CHOOSE r \in {games[j] : j \in 1..Len(games)} :
        r.game_id = gid /\ r.is_home = home).pts

\* the labels of a training row, from the two scores s_home and s_away of the log
LabelsFrom(tr, s_home, s_away) ==
    /\ IsNum(s_home) /\ IsNum(s_away) =>
          /\ tr.target_home_margin = Num(Val(s_home) - Val(s_away))
          /\ tr.target_home_win = (IF Val(s_home) > Val(s_away) THEN 1 ELSE 0)
    /\ ~(IsNum(s_home) /\ IsNum(s_away)) =>
          /\ tr.target_home_margin = NaN
          /\ tr.target_home_win = 0

\* C9: target_home_margin is home points minus away points when both scores are
\* known and undefined otherwise; target_home_win is 1 exactly when the margin is
\* positive, so 0 for a tie, an away win and an unknown score.
C9_Labels ==
    pc = "trained" =>
        \A i \in 1..Len(training) :
            LabelsFrom(training[i], LogPts(training[i].game_id, TRUE),
                       LogPts(training[i].game_id, FALSE))

\* a training set with a tied game, labelled margin 0 and win 0
C9_Witness ==
    /\ pc = "trained"
    /\ \E i \in 1..Len(training) :
          /\ training[i].target_home_margin = Num(0)
          /\ training[i].target_home_win = 0

----------------------------------------------------------------------------
(* C10: the odds formula *)

\* the rational <<num, den>> is -100 p / (1 - p) for p >= 1/2 and 100 (1 - p) / p
\* for p < 1/2, p = n / ProbDen
IsFairOdds(q, n) ==
    IF 2 * n >= ProbDen
    THEN q[1] * (ProbDen - n) = (0 - 100) * n * q[2]
    ELSE q[1] * n = 100 * (ProbDen - n) * q[2]

\* the integer b is a nearest integer to the rational q
IsNearest(b, q) ==
    /\ 2 * (b * q[2] - q[1]) <= q[2]
    /\ 2 * (q[1] - b * q[2]) <= q[2]

\* the stored moneyline cell ml is the rounded fair odds of probability n / ProbDen
RoundedOdds(ml, n) ==
    /\ IsNum(prob_to_american(Num(n)))
    /\ IsFairOdds(Val(prob_to_american(Num(n))), n)
    /\ IsNum(ml)
    /\ IsNearest(Val(ml), Val(prob_to_american(Num(n))))

\* C10: for 0 < p < 1 prob_to_american(p) is -100 p / (1 - p) when p >= 0.5 and
\* 100 (1 - p) / p when p < 0.5; the board stores it rounded to the nearest
\* integer, on p for the home side and on 1 - p for the away side; p = 0.75 gives
\* -300 and +300.
C10_OddsFormula ==
    (pc = "priced" /\ IsNum(prob) /\ Val(prob) > 0 /\ Val(prob) < ProbDen) =>
        /\ RoundedOdds(moneyline[1], Val(prob))
        /\ RoundedOdds(moneyline[2], ProbDen - Val(prob))
        /\ 4 * Val(prob) = 3 * ProbDen => moneyline = <<Num(0 - 300), Num(300)>>
        /\ 2 * Val(prob) = ProbDen => moneyline = <<Num(0 - 100), Num(0 - 100)>>

\* p = 0.75 priced at -300 / +300
C10_Witness ==
    /\ pc = "priced"
    /\ IsNum(prob) /\ 4 * Val(prob) = 3 * ProbDen
    /\ moneyline = <<Num(0 - 300), Num(300)>>

----------------------------------------------------------------------------
(* C11: two-sided odds consistency *)

\* the sign of the rational q = <<num, den>>, den > 0
IsNegative(q) == q[1] < 0
IsPositive(q) == q[1] > 0

\* the probability implied by the unrounded line q is n / ProbDen:
\* |ml| / (|ml| + 100) for a negative line, 100 / (ml + 100) for a positive one
Implies(q, n) ==
    IF IsNegative(q)
    THEN (0 - q[1]) * ProbDen = n * ((0 - q[1]) + 100 * q[2])
    ELSE 100 * q[2] * ProbDen = n * (q[1] + 100 * q[2])

\* the two unrounded lines of probability n / ProbDen
BothUndefined(h, a) == h = NaN /\ a = NaN

OppositeSigns(h, a) ==
    /\ IsNum(h) /\ IsNum(a)
    /\ \/ IsNegative(Val(h)) /\ IsPositive(Val(a))
       \/ IsPositive(Val(h)) /\ IsNegative(Val(a))

Consistent(h, a, n) ==
    \/ BothUndefined(h, a)
    \/ /\ OppositeSigns(h, a)
       /\ Implies(Val(h), n)
       /\ Implies(Val(a), ProbDen - n)

\* C11: for every p the home line prob_to_american(p) and the away line
\* prob_to_american(1 - p) are both undefined or have opposite signs, and the
\* probabilities the two unrounded lines imply are p and 1 - p.
C11_OddsConsistency ==
    (pc = "priced" /\ IsNum(prob)) =>
        Consistent(prob_to_american(prob), prob_to_american(OneMinus(prob)), Val(prob))

----------------------------------------------------------------------------
(* C12: the odds boundary *)

\* p = 0, p = 1, p outside [0, 1] or undefined (None and NaN are one cell here)
OutOfRange(p) == ~IsNum(p) \/ Val(p) <= 0 \/ Val(p) >= ProbDen

\* C12: for p = 0, p = 1, p outside [0, 1] and undefined p, prob_to_american
\* returns the missing value, and the missing value stays missing through the
\* rounding into home_moneyline_nv and away_moneyline_nv.
C12_OddsBoundary ==
    pc = "priced" =>
        /\ OutOfRange(prob) =>
              prob_to_american(prob) = NaN /\ moneyline[1] = NaN
        /\ OutOfRange(OneMinus(prob)) =>
              prob_to_american(OneMinus(prob)) = NaN /\ moneyline[2] = NaN

\* p above 1 priced: both lines are missing
C12_Witness ==
    /\ pc = "priced"
    /\ IsNum(prob) /\ Val(prob) > ProbDen
    /\ moneyline = <<NaN, NaN>>

----------------------------------------------------------------------------
(* C13: the deduplication key *)

RowsOf(seq) == {seq[i] : i \in 1..Len(seq)}

\* the team-game identity of a row
Identity(r) == <<r.date, r.game_id, r.team_id, r.is_home>>

\* the first row of `input` with the identity of input[k]
FirstLike(input, k) ==
    input[CHOOSE j \in 1..k :
            /\ Identity(input[j]) = Identity(input[k])
            /\ \A i \in 1..(j - 1) : Identity(input[i]) # Identity(input[k])]

\* out holds, for every identity in input, exactly the first row with it
KeepsFirstOfEach(out, input) ==
    /\ \A i, j \in 1..Len(out) : i # j => Identity(out[i]) # Identity(out[j])
    /\ \A k \in 1..Len(input) : FirstLike(input, k) \in RowsOf(out)
    /\ RowsOf(out) \subseteq RowsOf(input)

\* C13: after each history builder has run, no two rows of its log share
\* (date, game_id, team_id, is_home), the row kept for a key is the first in file
\* order, and rows that differ in any component of the key are all kept.
C13_DedupKey ==
    /\ pc = "build_history_done" =>
          KeepsFirstOfEach(games_teams, ConcatFiles(ReadableFiles(files)))
    /\ pc = "assemble_done" =>
          KeepsFirstOfEach(games, NormaliseTypes(ConcatFiles(files)))
    /\ pc = "historical_done" =>
          KeepsFirstOfEach(historical, ConcatFiles(ReadableFiles(files)))

----------------------------------------------------------------------------
(* C14: two rows per game *)

\* h and a are the home and the away row of one game: identities, codes and
\* points swapped, margins additive inverses or both absent
Mirrored(h, a) ==
    /\ h.is_home /\ ~a.is_home
    /\ h.game_id = a.game_id /\ h.date = a.date
    /\ h.team_id = a.opp_id /\ h.opp_id = a.team_id
    /\ h.team_code = a.opp_code /\ h.opp_code = a.team_code
    /\ h.pts = a.opp_pts /\ h.opp_pts = a.pts
    /\ IF IsNum(h.pts) /\ IsNum(h.opp_pts)
       THEN /\ IsNum(h.margin) /\ IsNum(a.margin)
            /\ Val(h.margin) + Val(a.margin) = 0
            /\ Val(h.margin) = Val(h.pts) - Val(h.opp_pts)
       ELSE h.margin = NaN /\ a.margin = NaN

\* the rows of game gid in a frame
GameRowsOf(frame, gid) == SelectSeq(frame, LAMBDA r : r.game_id = gid)

\* every game of the frame has exactly two rows, a mirrored home / away pair
TwoRowsPerGame(frame) ==
    \A gid \in GameIds(frame) :
        /\ Len(GameRowsOf(frame, gid)) = 2
        /\ \/ Mirrored(GameRowsOf(frame, gid)[1], GameRowsOf(frame, gid)[2])
           \/ Mirrored(GameRowsOf(frame, gid)[2], GameRowsOf(frame, gid)[1])

\* C14: fetch_day emits for every game exactly two rows, one home and one away,
\* mirrored; and every game_id of the log a history builder writes still has
\* exactly those two rows, also when the team ids are missing.
C14_TwoRows ==
    /\ \A i \in 1..Len(files) : files[i].readable => TwoRowsPerGame(files[i].rows)
    /\ pc = "build_history_done" => TwoRowsPerGame(games_teams)
    /\ pc = "assemble_done" => TwoRowsPerGame(games)
    /\ pc = "historical_done" => TwoRowsPerGame(historical)

----------------------------------------------------------------------------
(* C17: partial-failure tolerance of the rebuild *)

\* out holds rows of the readable files only, and a row for every team-game of
\* the readable files
CoversReadable(out, input) ==
    /\ RowsOf(out) \subseteq RowsOf(input)
    /\ \A r \in RowsOf(input) :
          \E o \in RowsOf(out) :
              o.date = r.date /\ o.game_id = r.game_id /\ o.team_id = r.team_id

SomeReadable == Len(ReadableFiles(files)) > 0

\* C17: in every history builder an unreadable daily file is skipped: whenever
\* some file is readable the rebuild completes, and its log holds the rows of the
\* readable files, wherever the unreadable file stands in the file order.
C17_PartialFailure ==
    /\ pc \in {"build_history_done", "build_history_failed"} /\ SomeReadable =>
          /\ pc = "build_history_done"
          /\ CoversReadable(games_teams, ConcatFiles(ReadableFiles(files)))
    /\ pc \in {"historical_done", "nothing_readable"} /\ SomeReadable =>
          /\ pc = "historical_done"
          /\ CoversReadable(historical, ConcatFiles(ReadableFiles(files)))
    /\ pc \in {"assemble_done", "assemble_failed"} /\ SomeReadable =>
          /\ pc = "assemble_done"
          /\ CoversReadable(games, NormaliseTypes(ConcatFiles(ReadableFiles(files))))

----------------------------------------------------------------------------
(* C18: schema violations *)

\* the columns the training builder needs in the log, and build_historical in the
\* daily data
LogColumns == {"game_id", "date", "is_home", "pts", "opp_pts", "margin", "start_time"}
DailyColumns == {"date", "game_id", "team_id"}

\* C18: when the log lacks one of game_id, date, is_home, pts, opp_pts, margin,
\* start_time the training run ends in an error and writes no training set; when
\* the concatenated daily data lacks one of date, game_id, team_id,
\* build_historical ends in an error and writes no historical file.
C18_SchemaFatal ==
    /\ ~(LogColumns \subseteq columns) =>
          /\ pc \notin {"trained"}
          /\ training = <<>> /\ train_roll = <<>>
    /\ (~(DailyColumns \subseteq columns) /\ SomeReadable) =>
          /\ pc \notin {"historical_done", "nothing_readable", "no_files"}
          /\ historical = <<>>
    /\ pc = "schema_error" => ~(LogColumns \subseteq columns)
    /\ pc = "historical_schema_error" => ~(DailyColumns \subseteq columns)

\* a training run stopped on a log without start_time
C18_Witness ==
    /\ pc = "schema_error"
    /\ columns = AllColumns \ {"start_time"}
    /\ Len(games) > 0
    /\ training = <<>>

----------------------------------------------------------------------------
(* C16: a target date without a daily file *)

\* the prediction run has ended, one way or another
PredictEnded == pc \in {"no_history", "no_daily_file", "predicted", "model_failed"}

\* C16: when the target date has no daily source file, the prediction run
\* completes without an error and its board has zero rows
C16_NoDataDate ==
    (PredictEnded /\ Len(DailyFile) = 0) => (pc = "predicted" /\ board = <<>>)

----------------------------------------------------------------------------
(* C15: idempotent upsert *)

\* the stored rows of game gid on date d
StoredRows(d, gid) == {x \in predictions : x.date = d /\ x.game_id = gid}

\* stored row x carries the values of board row r in the nine non-key columns
CarriesValues(x, r) ==
    /\ x.home_team_code = r.home_team_code
    /\ x.home_team_name = NameOf(r.home_team_code)
    /\ x.away_team_code = r.away_team_code
    /\ x.away_team_name = NameOf(r.away_team_code)
    /\ x.pred_home_margin = r.pred_home_margin
    /\ x.home_spread = r.home_spread
    /\ x.prob_home_win = r.prob_home_win
    /\ x.home_moneyline_nv = r.home_moneyline_nv
    /\ x.away_moneyline_nv = r.away_moneyline_nv

\* the runs for date d are over: its latest board has been upserted
Upserted(d) == boards[d].written /\ ~(job.step = "upsert" /\ job.today = d)

\* every game of the latest board of date d has a stored row with the values of a
\* board row of that game
TableReflects(d) ==
    \A i \in 1..Len(boards[d].rows) :
        \E x \in StoredRows(d, boards[d].rows[i].game_id) :
            \E j \in 1..Len(boards[d].rows) :
                /\ boards[d].rows[j].game_id = x.game_id
                /\ CarriesValues(x, boards[d].rows[j])

\* the table already holds every row of the board about to be upserted
AlreadyStored ==
    \A i \in 1..Len(boards[job.today].rows) :
        \E x \in StoredRows(job.today, boards[job.today].rows[i].game_id) :
            CarriesValues(x, boards[job.today].rows[i])

\* C15: whatever runs came before, the predictions table holds at most one row
\* per (date, game_id); once a date's latest board is upserted every game of it
\* is stored with that board's values in the nine non-key columns; and an upsert
\* of a board whose rows are all stored already leaves the table unchanged
C15_IdempotentUpsert ==
    /\ [](\A x \in predictions : \A y \in predictions :
              (x.date = y.date /\ x.game_id = y.game_id) => x = y)
    /\ [](\A d \in Dates : Upserted(d) => TableReflects(d))
    /\ [][(job.step = "upsert" /\ job'.step = "done" /\ AlreadyStored)
             => predictions' = predictions]_vars

\* date 1 has been run with a board of games 1 and 2 and again with a board of
\* game 1 alone, and the table also holds a row of date 2
C15_Witness ==
    /\ job.step = "done"
    /\ \E x \in predictions : x.date = 1 /\ x.game_id = 1 /\ x.pred_home_margin = 5
    /\ \E x \in predictions : x.date = 1 /\ x.game_id = 2 /\ x.pred_home_margin = -3
    /\ \E x \in predictions : x.date = 2
    /\ Len(boards[1].rows) = 1
    /\ boards[1].rows[1].game_id = 1
    /\ boards[1].rows[1].pred_home_margin = 5

----------------------------------------------------------------------------
(* C20: season start *)

\* C20: for every date d the computed season start is November 1 of d's year
\* when d is in November or December and November 1 of the previous year when d
\* is in January through October, leap years included, and its year is
\* season_start_year(d)
C20_SeasonStart ==
    season.start # NoDate =>
        /\ season.d[2] >= 11 => season.start = <<season.d[1], 11, 1>>
        /\ season.d[2] < 11 => season.start = <<season.d[1] - 1, 11, 1>>
        /\ season.start[1] = season.year

----------------------------------------------------------------------------
(* C19: the daily job from a clean state *)

\* C19: in a run that started without a daily file for today, the prediction
\* step finds a daily file for today and the run goes on to the upsert; and
\* the upsert step is reached only after the prediction step completed
C19_DailyJob ==
    /\ (job.clean /\ job.step \notin {"idle", "fetch", "assemble", "predict"}
            /\ PredictEnded)
          => (Len(DailyFile) > 0 /\ job.step \in {"upsert", "done"})
    /\ job.step \in {"upsert", "done"} => (pc = "predicted" /\ target = job.today)

====
